---- MODULE Spec2Model ----
(***************************************************************************)
(* Model of the OAuth gate of heroku/authenticater (googleauth.go).        *)
(*                                                                         *)
(* One client talks to one OAuthHandler.  Each step of the model is one    *)
(* whole HTTP request handled by ServeHTTPContext/loginOk.  The client may *)
(* present no cookie, the cookie value it holds, or an altered/expired     *)
(* value; after a response it either stores the cookie the gate set (as a  *)
(* browser does) or keeps the value it held.  The gate keeps no state      *)
(* between requests, so holding one value at a time loses no request.      *)
(* The identity provider's answers (token exchange, profile GET) and the   *)
(* random nonce are inputs chosen by the environment.                      *)
(*                                                                         *)
(* Representation of Go values:                                            *)
(*   - a *oauth2.Token is a number 1..NumTokens, nil is 0 (NoToken);       *)
(*   - a state nonce is a number 1..NumStates, the empty string is 0;      *)
(*   - a URL string is the sequence of its pieces, "" is << >>;            *)
(*   - an email / domain is the sequence of its characters.                *)
(***************************************************************************)
EXTENDS Integers, Sequences, FiniteSets, TLC

VARIABLES h, env, alive, jar, minted, req, resp, check, browser

vars == <<h, env, alive, jar, minted, req, resp, check, browser>>

----------------------------------------------------------------------------
(* Bounds of the model *)

NumTokens == 2
NumStates == 2
MaxEmailLen == 3
MaxDomainLen == 2
MaxProviderVisits == 2

(* Program constants *)

callbackPath == "/oauth2callback"
StatusTemporaryRedirect == 307
StatusUnauthorized == 401
StatusInternalServerError == 500
StatusOK == 200
KeyLen == 32
DeleteMaxAge == -1

----------------------------------------------------------------------------
(* Values *)

NoToken == 0
EmptyString == 0
Tokens == 1..NumTokens
Nonces == 1..NumStates
NoURL == << >>

Alphabet == {"u", "@", "d"}
Texts == UNION {[1..n -> Alphabet] : n \in 0..MaxEmailLen}

\* type sess struct { OAuthToken; NextURL; State }
sess(tok, next, state) == [OAuthToken |-> tok, NextURL |-> next, State |-> state]

EmptySess == sess(NoToken, NoURL, EmptyString)

\* what the request carries in the Cookie header under the session name
NoCookie == [kind |-> "none", val |-> EmptySess]
InvalidCookie == [kind |-> "invalid", val |-> EmptySess]
ValidCookie(s) == [kind |-> "valid", val |-> s]

Hosts == {"app"}
Paths == {callbackPath, "/dashboard"}

\* the query string, as its key=value pairs in order
Queries ==
    {<< >>, <<<<"code", 1>>>>}
      \cup {<<<<"state", s>>>> : s \in Nonces}
      \cup {<<<<"state", s>>, <<"code", 1>>>> : s \in Nonces}

\* answers of the provider's token endpoint to conf.Exchange
ExchangeResults ==
    {[err |-> TRUE, tok |-> NoToken]} \cup {[err |-> FALSE, tok |-> t] : t \in Tokens}

\* answers of client.Get on the userinfo endpoint: (resp, err) and the body
ProfileResponses ==
    {[err |-> TRUE, nilresp |-> TRUE, StatusCode |-> 0, json |-> FALSE, Email |-> << >>],
     [err |-> TRUE, nilresp |-> FALSE, StatusCode |-> 302, json |-> FALSE, Email |-> << >>],
     [err |-> FALSE, nilresp |-> FALSE, StatusCode |-> 500, json |-> FALSE, Email |-> << >>],
     [err |-> FALSE, nilresp |-> FALSE, StatusCode |-> StatusOK, json |-> FALSE, Email |-> << >>]}
      \cup {[err |-> FALSE, nilresp |-> FALSE, StatusCode |-> StatusOK, json |-> TRUE, Email |-> e] :
              e \in Texts}

\* the profile answers the gate is driven with
GateProfiles ==
    {p \in ProfileResponses :
        p.json => p.Email \in {<<"u", "@", "d">>, <<"u", "@", "u">>, <<"u", "d">>}}

\* required domains: non-empty, without an "@"
Domains == {d \in Texts : Len(d) \in 1..MaxDomainLen /\ \A i \in 1..Len(d) : d[i] # "@"}

NoProfile == [err |-> FALSE, nilresp |-> FALSE, StatusCode |-> 0, json |-> FALSE, Email |-> << >>]

----------------------------------------------------------------------------
(* Pure helpers *)

\* r.FormValue(key): the first value of key in the query, "" when absent
RECURSIVE FormValue(_, _)
FormValue(q, key) ==
    IF q = << >> THEN EmptyString
    ELSE IF Head(q)[1] = key THEN Head(q)[2]
    ELSE FormValue(Tail(q), key)

\* url.URL.String(): scheme ":" "//" host path "?" query
URLString(u) ==
    (IF u.Scheme # "" THEN <<u.Scheme, ":">> ELSE << >>)
      \o (IF u.Scheme # "" \/ u.Host # "" THEN <<"//", u.Host>> ELSE << >>)
      \o <<u.Path>>
      \o (IF u.RawQuery # << >> THEN <<"?", u.RawQuery>> ELSE << >>)

\* strings.Split(s, "@")
RECURSIVE Split(_)
Split(s) ==
    IF \A i \in 1..Len(s) : s[i] # "@" THEN <<s>>
    ELSE LET i == CHOOSE k \in 1..Len(s) :
                     s[k] = "@" /\ \A j \in 1..(k - 1) : s[j] # "@"
         IN  <<SubSeq(s, 1, i - 1)>> \o Split(SubSeq(s, i + 1, Len(s)))

\* domainAllowed(client, domain): "true", "false", or "panic" when the code
\* dereferences the nil *http.Response that client.Get returns with an error
domainAllowed(p, domain) ==
    IF p.err \/ p.StatusCode # StatusOK
    THEN IF p.nilresp THEN "panic" ELSE "false"
    ELSE IF ~p.json THEN "false"
    ELSE LET user == Split(p.Email)
         IN  IF Len(user) < 2 \/ user[2] # domain THEN "false" ELSE "true"

\* keys(s): the key is read from the environment variable KEY, not from s;
\* a value that is not hex or not 32 bytes long ends the process
keys(s) ==
    LET key == env.KEY
    IN  IF ~key.hex THEN [exit |-> TRUE, key |-> key]
        ELSE IF key.bytes # KeyLen THEN [exit |-> TRUE, key |-> key]
        ELSE [exit |-> FALSE, key |-> key]

\* h.sessionConfig()
sessionConfig(hh) ==
    [Name |-> IF hh.Name = "" THEN "googlegoauth" ELSE hh.Name,
     Path |-> hh.Path, Domain |-> hh.Domain, MaxAge |-> hh.MaxAge,
     Keys |-> keys(hh.Key)]

\* session.Get(r, &user, config): the record of a cookie this gate issued,
\* http.ErrNoCookie without a cookie, another error for an altered or
\* expired value
sessionGet(r, config) ==
    CASE r.cookie.kind = "none" -> [err |-> "ErrNoCookie", user |-> EmptySess]
      [] r.cookie.kind = "valid" -> [err |-> "nil", user |-> r.cookie.val]
      [] OTHER -> [err |-> "ErrInvalid", user |-> EmptySess]

\* session.Set(w, v, config): one Set-Cookie header
sessionSet(v, config) == [Name |-> config.Name, val |-> v, MaxAge |-> config.MaxAge]

\* mutant: the deletion keeps the configured max-age
deleteCookie_KeepAge(hh) == sessionSet(EmptySess, sessionConfig(hh))

\* h.deleteCookie(w)
deleteCookie(hh) ==
    LET conf == [sessionConfig(hh) EXCEPT !.MaxAge = DeleteMaxAge]
    IN  sessionSet(EmptySess, conf)

\* conf.Scopes, with the default of loginOk
Scopes(hh) ==
    IF hh.Scopes = << >> THEN <<"userinfo.email", "userinfo.profile">> ELSE hh.Scopes

\* conf.AuthCodeURL(state)
AuthCodeURL(hh, r, state) ==
    <<"AuthURL", "?",
      [client_id |-> hh.ClientID,
       redirect_uri |-> <<"https://", r.Host, callbackPath>>,
       scope |-> Scopes(hh),
       state |-> state]>>

\* http.Redirect's Location: a URL with a scheme is kept, a relative one is
\* resolved against the directory of the request path ("" gives "/")
RedirectLocation(r, url) == IF url = NoURL THEN <<"/">> ELSE url

----------------------------------------------------------------------------
(* The response of one request *)

Idle ==
    [phase |-> "idle", getName |-> "", decode |-> "nil", user |-> EmptySess,
     status |-> 0, body |-> "", location |-> NoURL, setCookie |-> << >>,
     handler |-> 0, client |-> NoToken, stateCmp |-> "none",
     exchange |-> << >>, profile |-> << >>, domain |-> "none",
     nonce |-> EmptyString, trace |-> << >>]

\* after session.Get returned (lines 106-107)
Decoded(hh, got) ==
    [Idle EXCEPT !.phase = "served", !.getName = sessionConfig(hh).Name,
                 !.decode = got.err, !.user = got.user, !.trace = <<"get">>]

\* http.Error(w, body, code)
Error(b, body, code) ==
    [b EXCEPT !.status = code, !.body = body, !.trace = @ \o <<"respond">>]

\* mutant: the 500 of a decode error leaves the bad cookie in place
DecodeErrorOut_NoDelete(hh, b) == Error(b, "internal error", StatusInternalServerError)

\* mutant: the 500 of a decode error reports the decode error
DecodeErrorOut_LeakDetail(hh, b) ==
    Error([b EXCEPT !.setCookie = @ \o <<deleteCookie(hh)>>, !.trace = @ \o <<"set">>],
          b.decode, StatusInternalServerError)

\* lines 108-112: a decode error other than ErrNoCookie
DecodeErrorOut(hh, b) ==
    Error([b EXCEPT !.setCookie = @ \o <<deleteCookie(hh)>>, !.trace = @ \o <<"set">>],
          "internal error", StatusInternalServerError)

\* mutant: the handler is reached without the cookie being re-issued
AuthenticatedOut_NoRefresh(hh, b, user) ==
    [b EXCEPT !.client = user.OAuthToken, !.handler = @ + 1, !.trace = @ \o <<"handler">>]

\* lines 126-132 and 93-99: refresh the cookie, forward to the handler
AuthenticatedOut(hh, b, user) ==
    [b EXCEPT !.setCookie = @ \o <<sessionSet(user, sessionConfig(hh))>>,
              !.client = user.OAuthToken,
              !.handler = @ + 1,
              !.trace = @ \o <<"set", "handler">>]

\* mutant: the callback is let through whenever it carries a code
StateMatches_CodeOnly(r, user) == FormValue(r.URL.RawQuery, "code") # EmptyString

\* mutant: the state comparison is skipped
StateMatches_Always(r, user) == TRUE

\* line 134: the state comparison of the callback
StateMatches(r, user) == FormValue(r.URL.RawQuery, "state") = user.State

\* mutant: a state mismatch answers 401 but leaves the pending cookie
MismatchOut_NoDelete(hh, b) ==
    Error([b EXCEPT !.stateCmp = "fail", !.trace = @ \o <<"compare">>],
          "access forbidden", StatusUnauthorized)

\* lines 134-139
MismatchOut(hh, b) ==
    Error([b EXCEPT !.stateCmp = "fail",
                    !.setCookie = @ \o <<deleteCookie(hh)>>,
                    !.trace = @ \o <<"compare", "set">>],
          "access forbidden", StatusUnauthorized)

\* line 140: conf.Exchange was called and answered x
Exchanged(b, x) ==
    [b EXCEPT !.stateCmp = "pass", !.exchange = @ \o <<x>>,
              !.trace = @ \o <<"compare", "exchange">>]

\* mutant: the 401 of a failed exchange leaves the cookie alone
ExchangeFailedOut_NoDelete(hh, b) == Error(b, "access forbidden", StatusUnauthorized)

\* lines 141-147
ExchangeFailedOut(hh, b) ==
    Error([b EXCEPT !.setCookie = @ \o <<deleteCookie(hh)>>, !.trace = @ \o <<"set">>],
          "access forbidden", StatusUnauthorized)

\* line 150: domainAllowed was called, the profile GET answered p
Verified(hh, b, p) ==
    [b EXCEPT !.profile = @ \o <<p>>, !.domain = domainAllowed(p, hh.RequireDomain),
              !.trace = @ \o <<"profile">>]

\* mutant: a failed domain check still stores the exchanged token
DomainDeniedOut_KeepToken(hh, b) ==
    Error([b EXCEPT !.setCookie =
                      @ \o <<sessionSet(sess(b.exchange[1].tok, NoURL, EmptyString),
                                         sessionConfig(hh))>>,
                    !.trace = @ \o <<"set">>],
          "access forbidden", StatusUnauthorized)

\* mutant: a failed domain check answers 401 without deleting the cookie
DomainDeniedOut_NoDelete(hh, b) == Error(b, "access forbidden", StatusUnauthorized)

\* lines 150-154
DomainDeniedOut(hh, b) ==
    Error([b EXCEPT !.setCookie = @ \o <<deleteCookie(hh)>>, !.trace = @ \o <<"set">>],
          "access forbidden", StatusUnauthorized)

\* the panic of line 183 unwinds loginOk: nothing is written
PanicOut(b) == [b EXCEPT !.phase = "panicked", !.trace = @ \o <<"panic">>]

\* mutant: the callback redirects without storing the token
CallbackOkOut_NoCookie(hh, b, r, user, tok) ==
    [b EXCEPT !.status = StatusTemporaryRedirect,
              !.location = RedirectLocation(r, user.NextURL),
              !.trace = @ \o <<"respond">>]

\* mutant: the token is added to the pending session instead of replacing it
CallbackOkOut_KeepFlow(hh, b, r, user, tok) ==
    [b EXCEPT !.setCookie = @ \o <<sessionSet(sess(tok, user.NextURL, user.State),
                                                sessionConfig(hh))>>,
              !.status = StatusTemporaryRedirect,
              !.location = RedirectLocation(r, user.NextURL),
              !.trace = @ \o <<"set", "respond">>]

\* lines 156-158
CallbackOkOut(hh, b, r, user, tok) ==
    [b EXCEPT !.setCookie = @ \o <<sessionSet(sess(tok, NoURL, EmptyString), sessionConfig(hh))>>,
              !.status = StatusTemporaryRedirect,
              !.location = RedirectLocation(r, user.NextURL),
              !.trace = @ \o <<"set", "respond">>]

\* mutant: the request URL is stored as received, without scheme and host
NextURL_Relative(r) == URLString(r.URL)

\* lines 161-163: the URL of the request, made absolute
NextURL(r) == URLString([r.URL EXCEPT !.Scheme = "https", !.Host = r.Host])

\* lines 161-167
NewFlowOut(hh, b, r, state) ==
    [b EXCEPT !.nonce = state,
              !.setCookie = @ \o <<sessionSet(sess(NoToken, NextURL(r), state), sessionConfig(hh))>>,
              !.status = StatusTemporaryRedirect,
              !.location = RedirectLocation(r, AuthCodeURL(hh, r, state)),
              !.trace = @ \o <<"newState", "set", "respond">>]

\* os.Exit(1) inside keys(): the process is gone, no response
ExitOut == [Idle EXCEPT !.phase = "exited", !.trace = <<"exit">>]

----------------------------------------------------------------------------
(* The client *)

\* the cookie values the client can put in a request
Presentable ==
    {NoCookie, InvalidCookie}
      \cup (IF jar.kind = "valid" THEN {jar} ELSE {})

Requests ==
    {[cookie |-> c, Host |-> host,
      URL |-> [Scheme |-> "", Host |-> "", Path |-> path, RawQuery |-> q]] :
        c \in Presentable, host \in Hosts, path \in Paths, q \in Queries}

NoRequest ==
    [cookie |-> NoCookie, Host |-> "",
     URL |-> [Scheme |-> "", Host |-> "", Path |-> "", RawQuery |-> << >>]]

\* a browser's cookie jar after the Set-Cookie headers of a response:
\* a negative max-age removes the cookie
RECURSIVE StoreCookies(_, _)
StoreCookies(j, sets) ==
    IF sets = << >> THEN j
    ELSE StoreCookies(IF Head(sets).MaxAge < 0 THEN NoCookie
                      ELSE ValidCookie(Head(sets).val),
                      Tail(sets))

\* the response reaches the client; a panicking or exiting handler sends none
Finish(r, out) ==
    /\ req' = r
    /\ resp' = out
    /\ jar' \in {jar} \cup (IF out.phase = "served"
                            THEN {StoreCookies(jar, out.setCookie)} ELSE {})
    /\ alive' = (out.phase # "exited")
    /\ UNCHANGED <<h, env, check>>

----------------------------------------------------------------------------
(* The gate: ServeHTTPContext and loginOk, one request *)

\* lines 133-159: the callback path
Callback(r, b, user) ==
    IF ~StateMatches(r, user)
    THEN Finish(r, MismatchOut(h, b)) /\ UNCHANGED minted
    ELSE \E x \in ExchangeResults :
           LET b2 == Exchanged(b, x)
           IN  IF x.err
               THEN Finish(r, ExchangeFailedOut(h, b2)) /\ UNCHANGED minted
               ELSE IF h.RequireDomain # << >>
               THEN \E p \in GateProfiles :
                      LET b3 == Verified(h, b2, p)
                      IN  CASE b3.domain = "panic" ->
                                 Finish(r, PanicOut(b3)) /\ UNCHANGED minted
                            [] b3.domain = "false" ->
                                 Finish(r, DomainDeniedOut(h, b3)) /\ UNCHANGED minted
                            [] OTHER ->
                                 /\ Finish(r, CallbackOkOut(h, b3, r, user, x.tok))
                                 /\ minted' = minted \cup {x.tok}
               ELSE /\ Finish(r, CallbackOkOut(h, b2, r, user, x.tok))
                    /\ minted' = minted \cup {x.tok}

\* lines 104-168 and 88-100
loginOk(r) ==
    IF sessionConfig(h).Keys.exit
    THEN Finish(r, ExitOut) /\ UNCHANGED minted
    ELSE LET got == sessionGet(r, sessionConfig(h))
             user == got.user
             b == Decoded(h, got)
         IN  IF got.err # "nil" /\ got.err # "ErrNoCookie"
             THEN Finish(r, DecodeErrorOut(h, b)) /\ UNCHANGED minted
             ELSE IF user.OAuthToken # NoToken
             THEN Finish(r, AuthenticatedOut(h, b, user)) /\ UNCHANGED minted
             ELSE IF r.URL.Path = callbackPath
             THEN Callback(r, b, user)
             ELSE \E state \in Nonces :
                    Finish(r, NewFlowOut(h, b, r, state)) /\ UNCHANGED minted

ServeHTTP ==
    /\ alive
    /\ \E r \in Requests : loginOk(r)
    /\ UNCHANGED browser

----------------------------------------------------------------------------
(* Configuration and specification *)

\* a browser that has not navigated yet: the URL it wants, the redirects to
\* the provider it has followed, the states of the flows it started and the
\* callbacks it has delivered
NoBrowser ==
    [U |-> NoRequest, provider |-> 0, f1 |-> EmptyString, f2 |-> EmptyString, cb |-> << >>]

NoCheck == [profile |-> NoProfile, domain |-> << >>, result |-> "none"]

GoodKey == [hex |-> TRUE, bytes |-> KeyLen]

Handlers ==
    {[RequireDomain |-> d, Name |-> n, Path |-> "/", Domain |-> "", MaxAge |-> 3600,
      Key |-> GoodKey, ClientID |-> "id", ClientSecret |-> "secret", Scopes |-> << >>] :
        d \in {<< >>, <<"d">>}, n \in {""}}

Init ==
    /\ h \in Handlers
    /\ env = [KEY |-> GoodKey]
    /\ alive = TRUE
    /\ jar = NoCookie
    /\ check = NoCheck
    /\ browser = NoBrowser
    /\ minted = {}
    /\ req = NoRequest
    /\ resp = Idle

Next == ServeHTTP

Spec == Init /\ [][Next]_vars

----------------------------------------------------------------------------
(* domainAllowed on its own: every profile answer against every domain *)

InitDomain ==
    /\ h \in Handlers
    /\ env = [KEY |-> GoodKey]
    /\ alive = TRUE
    /\ jar = NoCookie
    /\ minted = {}
    /\ req = NoRequest
    /\ resp = Idle
    /\ browser = NoBrowser
    /\ check \in {[profile |-> p, domain |-> d, result |-> "none"] :
                    p \in ProfileResponses, d \in Domains}

DomainCheck ==
    /\ check.result = "none"
    /\ check' = [check EXCEPT !.result = domainAllowed(check.profile, check.domain)]
    /\ UNCHANGED <<h, env, alive, jar, minted, req, resp, browser>>

NextDomain == DomainCheck

SpecDomain == InitDomain /\ [][NextDomain]_vars

----------------------------------------------------------------------------
(* The gate under every key configuration: the Key field and the KEY
   environment variable each good, not hex, too short or missing *)

KeyValues ==
    {GoodKey, [hex |-> FALSE, bytes |-> KeyLen], [hex |-> TRUE, bytes |-> 16],
     [hex |-> TRUE, bytes |-> 0]}

InitKeys ==
    /\ h \in {[hh EXCEPT !.Key = k] : hh \in {x \in Handlers : x.RequireDomain = << >>},
                                      k \in {GoodKey, [hex |-> TRUE, bytes |-> 16]}}
    /\ env \in {[KEY |-> k] : k \in KeyValues}
    /\ alive = TRUE
    /\ jar = NoCookie
    /\ check = NoCheck
    /\ browser = NoBrowser
    /\ minted = {}
    /\ req = NoRequest
    /\ resp = Idle

SpecKeys == InitKeys /\ [][Next]_vars

----------------------------------------------------------------------------
(* A browser logging in: it asks for U, follows every redirect, stores every
   cookie and sends it back; the provider returns the state it was given and
   a code whose exchange succeeds, and a profile in the required domain *)

\* the request a Location of the gate's own host leads to
ParseLocation(loc) ==
    IF Len(loc) = 1
    THEN [cookie |-> NoCookie, Host |-> req.Host,
          URL |-> [Scheme |-> "", Host |-> "", Path |-> loc[1], RawQuery |-> << >>]]
    ELSE [cookie |-> NoCookie, Host |-> loc[4],
          URL |-> [Scheme |-> "", Host |-> "", Path |-> loc[5],
                   RawQuery |-> IF Len(loc) > 5 THEN loc[7] ELSE << >>]]

\* the provider sends the browser back to redirect_uri with the state it
\* received and an authorization code
ProviderRedirect(host, path, state) ==
    [cookie |-> NoCookie, Host |-> host,
     URL |-> [Scheme |-> "", Host |-> "", Path |-> path,
              RawQuery |-> <<<<"state", state>>, <<"code", 1>>>>]]

ToProvider(out) ==
    out.status = StatusTemporaryRedirect /\ out.location[1] = "AuthURL"

\* what the browser asks for next
BrowserNext ==
    IF resp.phase = "idle" THEN browser.U
    ELSE IF ToProvider(resp)
    THEN ProviderRedirect(resp.location[3].redirect_uri[2],
                          resp.location[3].redirect_uri[3],
                          resp.location[3].state)
    ELSE ParseLocation(resp.location)

\* the provider cooperated in the request just handled
ProviderCooperates(out) ==
    /\ \A i \in 1..Len(out.exchange) : ~out.exchange[i].err
    /\ out.domain \in {"none", "true"}

BrowserTargets ==
    {[cookie |-> NoCookie, Host |-> host,
      URL |-> [Scheme |-> "", Host |-> "", Path |-> path, RawQuery |-> q]] :
        host \in Hosts, path \in Paths \ {callbackPath}, q \in Queries}

InitBrowser ==
    /\ h \in Handlers
    /\ env = [KEY |-> GoodKey]
    /\ alive = TRUE
    /\ jar = NoCookie
    /\ check = NoCheck
    /\ browser \in {[NoBrowser EXCEPT !.U = u] : u \in BrowserTargets}
    /\ minted = {}
    /\ req = NoRequest
    /\ resp = Idle

BrowserStep ==
    /\ alive
    /\ resp.handler = 0
    /\ resp.phase = "idle" \/ resp.status = StatusTemporaryRedirect
    /\ loginOk([BrowserNext EXCEPT !.cookie = jar])
    /\ jar' = StoreCookies(jar, resp'.setCookie)
    /\ ProviderCooperates(resp')
    /\ browser' = [browser EXCEPT !.provider =
                      IF ToProvider(resp') /\ @ < MaxProviderVisits THEN @ + 1 ELSE @]

NextBrowser == BrowserStep

SpecBrowser == InitBrowser /\ [][NextBrowser]_vars /\ WF_vars(BrowserStep)

----------------------------------------------------------------------------
(* Two login flows in one browser: both tabs share the cookie jar; flow 1
   and flow 2 are started, in that order, before either callback arrives,
   then the provider's two redirects are delivered in any order *)

\* a tab asks for a page and is sent to the provider
StartFlow(first) ==
    /\ alive
    /\ IF first THEN browser.f1 = EmptyString
                ELSE browser.f1 # EmptyString /\ browser.f2 = EmptyString
    /\ \E u \in BrowserTargets : loginOk([u EXCEPT !.cookie = jar])
    /\ jar' = StoreCookies(jar, resp'.setCookie)
    /\ resp'.nonce # browser.f1
    /\ browser' = IF first THEN [browser EXCEPT !.f1 = resp'.nonce]
                           ELSE [browser EXCEPT !.f2 = resp'.nonce]

StartFlow1 == StartFlow(TRUE)

StartFlow2 == StartFlow(FALSE)

Delivered(flow) == \E i \in 1..Len(browser.cb) : browser.cb[i].flow = flow

\* the provider's redirect of one flow reaches the gate
DeliverCallback(flow) ==
    /\ alive
    /\ browser.f1 # EmptyString /\ browser.f2 # EmptyString
    /\ ~Delivered(flow)
    /\ \E host \in Hosts :
          loginOk([ProviderRedirect(host, callbackPath,
                                    IF flow = 1 THEN browser.f1 ELSE browser.f2)
                     EXCEPT !.cookie = jar])
    /\ jar' = IF resp'.phase = "served" THEN StoreCookies(jar, resp'.setCookie) ELSE jar
    /\ browser' = [browser EXCEPT !.cb =
                      Append(@, [flow |-> flow, status |-> resp'.status,
                                 exchanged |-> Len(resp'.exchange) > 0,
                                 handler |-> resp'.handler])]

Callback1 == DeliverCallback(1)

Callback2 == DeliverCallback(2)

NextTabs == StartFlow1 \/ StartFlow2 \/ Callback1 \/ Callback2

SpecTabs == Init /\ [][NextTabs]_vars

----------------------------------------------------------------------------
(* What a finished request shows *)

Served == resp.phase = "served"
OnCallback == req.URL.Path = callbackPath
HandlerInvoked == resp.handler > 0

\* the cookie of the request decoded, or there was none
SessionRead == Served /\ resp.decode \in {"nil", "ErrNoCookie"}
HoldsToken == resp.user.OAuthToken # NoToken

\* the state parameter of the request equals the state of the session
StateParamEqual == FormValue(req.URL.RawQuery, "state") = resp.user.State

ExchangeTried == Len(resp.exchange) > 0
ExchangeOk == Len(resp.exchange) = 1 /\ ~resp.exchange[1].err
ExchangeErr == Len(resp.exchange) = 1 /\ resp.exchange[1].err
ProfileFetched == Len(resp.profile) > 0

TokenWritten ==
    \E i \in 1..Len(resp.setCookie) : resp.setCookie[i].val.OAuthToken # NoToken

\* the response carries exactly one Set-Cookie, and it deletes the session
CookieDeleted ==
    /\ Len(resp.setCookie) = 1
    /\ resp.setCookie[1].val = EmptySess
    /\ resp.setCookie[1].MaxAge < 0

\* a callback in which every check of the gate passed
CallbackPassed ==
    /\ OnCallback
    /\ StateParamEqual
    /\ ExchangeOk
    /\ (h.RequireDomain # << >> => resp.domain = "true")

\* C1 as stated: the handler runs only for a cookie that decodes to a token,
\* a token-holding cookie is written only by a callback that passed every
\* check, and the token of every handler invocation came from such a callback.
C1_AsStated ==
    /\ HandlerInvoked =>
         req.cookie.kind = "valid" /\ req.cookie.val.OAuthToken # NoToken
    /\ TokenWritten => CallbackPassed
    /\ HandlerInvoked => req.cookie.val.OAuthToken \in minted

\* C1 amended: a token-holding cookie is written either by a callback that
\* passed every check, or as the refresh of an authenticated request, which
\* re-issues the record its own cookie decoded to; every token written or
\* forwarded to the handler came from a callback that passed every check.
C1_HandlerOnlyAfterCallback ==
    /\ HandlerInvoked =>
         req.cookie.kind = "valid" /\ req.cookie.val.OAuthToken # NoToken
    /\ TokenWritten =>
         \/ CallbackPassed /\ ~HoldsToken
         \/ /\ req.cookie.kind = "valid" /\ req.cookie.val.OAuthToken # NoToken
            /\ \A i \in 1..Len(resp.setCookie) : resp.setCookie[i].val = req.cookie.val
    /\ \A i \in 1..Len(resp.setCookie) :
         resp.setCookie[i].val.OAuthToken \in minted \cup {NoToken}
    /\ HandlerInvoked => req.cookie.val.OAuthToken \in minted

\* the handler has run for a token that a passed callback wrote earlier
C1_Witness == HandlerInvoked /\ req.cookie.val.OAuthToken \in minted

\* C2 as stated: every callback-path request whose state parameter differs
\* from the session's state gets 401 and a cookie deletion, with no token
\* exchange and no handler invocation.
C2_AsStated ==
    (SessionRead /\ OnCallback /\ ~StateParamEqual) =>
        /\ resp.status = StatusUnauthorized
        /\ CookieDeleted
        /\ ~ExchangeTried
        /\ ~HandlerInvoked

\* C2 amended: the same, for callback-path requests whose session holds no
\* token (a session with a token is forwarded to the handler before the
\* path is looked at).
C2_MismatchDenied ==
    (SessionRead /\ OnCallback /\ ~HoldsToken /\ ~StateParamEqual) =>
        /\ resp.status = StatusUnauthorized
        /\ CookieDeleted
        /\ ~ExchangeTried
        /\ ~ProfileFetched
        /\ ~HandlerInvoked

\* a pending flow whose callback came back with another state, and a code
C2_Witness ==
    /\ SessionRead /\ OnCallback /\ ~HoldsToken /\ ~StateParamEqual
    /\ resp.user.State # EmptyString
    /\ FormValue(req.URL.RawQuery, "code") # EmptyString
    /\ resp.status = StatusUnauthorized

\* C3 as stated: a callback-path request without a pending flow (no cookie,
\* or a session without a state) is denied with 401 and no token exchange is
\* tried, whatever its state parameter, absent and empty included.
C3_AsStated ==
    (SessionRead /\ OnCallback /\ ~HoldsToken /\ resp.user.State = EmptyString) =>
        /\ resp.status = StatusUnauthorized
        /\ ~ExchangeTried

\* C4: a callback whose state matches and whose code exchange fails gets 401
\* and a cookie deletion; no token cookie, no domain check, no handler.
C4_ExchangeErrorDenied ==
    (Served /\ OnCallback /\ StateParamEqual /\ ExchangeErr) =>
        /\ resp.status = StatusUnauthorized
        /\ CookieDeleted
        /\ ~TokenWritten
        /\ ~ProfileFetched
        /\ resp.domain = "none"
        /\ ~HandlerInvoked

\* a pending flow whose callback carried its state and whose exchange failed
C4_Witness ==
    /\ Served /\ OnCallback /\ StateParamEqual /\ ExchangeErr
    /\ resp.user.State # EmptyString
    /\ resp.status = StatusUnauthorized

\* C5: with a required domain, a callback whose state check and exchange
\* passed but whose domain check returned false gets 401 and a cookie
\* deletion; the exchanged token is never written, the handler never runs.
C5_DomainFailureDenied ==
    (/\ Served /\ OnCallback /\ h.RequireDomain # << >>
     /\ StateParamEqual /\ ExchangeOk /\ resp.domain = "false") =>
        /\ resp.status = StatusUnauthorized
        /\ CookieDeleted
        /\ ~TokenWritten
        /\ ~HandlerInvoked

\* the profile's email is in another domain than the required one
C5_Witness ==
    /\ Served /\ OnCallback /\ h.RequireDomain # << >>
    /\ StateParamEqual /\ ExchangeOk /\ resp.domain = "false"
    /\ resp.profile[1].json /\ resp.profile[1].Email = <<"u", "@", "u">>
    /\ resp.status = StatusUnauthorized

\* C6 as stated: when the profile GET fails with a network error and no
\* response object, domainAllowed returns false and the request ends with
\* 401 and a cookie deletion.
C6_AsStated ==
    (ProfileFetched /\ resp.profile[1].err /\ resp.profile[1].nilresp) =>
        /\ resp.domain = "false"
        /\ Served
        /\ resp.status = StatusUnauthorized
        /\ CookieDeleted

\* the number of "@" in an email, and the text after its first "@"
AtCount(e) == Cardinality({i \in 1..Len(e) : e[i] = "@"})
AfterAt(e) ==
    LET i == CHOOSE k \in 1..Len(e) : e[k] = "@" /\ \A j \in 1..(k - 1) : e[j] # "@"
    IN  SubSeq(e, i + 1, Len(e))

\* C7 as stated: for a 200 answer with well-formed JSON, domainAllowed
\* returns true exactly when the email has exactly one "@" and the text
\* after it equals the required domain.
C7_AsStated ==
    (/\ check.result # "none"
     /\ ~check.profile.err /\ check.profile.StatusCode = StatusOK /\ check.profile.json) =>
        (check.result = "true" <=>
            (AtCount(check.profile.Email) = 1 /\ AfterAt(check.profile.Email) = check.domain))

\* the URL the claim expects in the cookie: "https://" + host + path and query
C8_ExpectedNextURL ==
    <<"https", ":", "//", req.Host, req.URL.Path>>
      \o (IF req.URL.RawQuery # << >> THEN <<"?", req.URL.RawQuery>> ELSE << >>)

\* C8: a request off the callback path whose session holds no token gets a
\* generated nonce, a cookie holding exactly {nextURL, state} with
\* nextURL = "https://" + host + path and query, and a 307 to the provider's
\* authorization URL carrying that nonce; the handler is not invoked.
C8_NewFlowStarted ==
    (SessionRead /\ ~OnCallback /\ ~HoldsToken) =>
        /\ resp.nonce \in Nonces
        /\ Len(resp.setCookie) = 1
        /\ resp.setCookie[1].val = sess(NoToken, C8_ExpectedNextURL, resp.nonce)
        /\ resp.setCookie[1].MaxAge = h.MaxAge
        /\ resp.status = StatusTemporaryRedirect
        /\ Len(resp.location) = 3
        /\ resp.location[1] = "AuthURL"
        /\ resp.location[3].state = resp.nonce
        /\ resp.location[3].redirect_uri = <<"https://", req.Host, callbackPath>>
        /\ ~ExchangeTried
        /\ ~HandlerInvoked

\* a pending flow is replaced by a new one, for a URL with a query
C8_Witness ==
    /\ SessionRead /\ ~OnCallback /\ ~HoldsToken
    /\ resp.user.State # EmptyString
    /\ req.URL.RawQuery # << >>
    /\ resp.status = StatusTemporaryRedirect

\* C9 as stated: a callback whose state matches, whose exchange succeeds and
\* whose domain check (if required) passes writes a cookie holding only the
\* exchanged token and answers 307 to the nextURL stored in the session when
\* the flow was started; the handler is not invoked.
C9_AsStated ==
    (SessionRead /\ ~HoldsToken /\ CallbackPassed) =>
        /\ Len(resp.setCookie) = 1
        /\ resp.setCookie[1].val = sess(resp.exchange[1].tok, NoURL, EmptyString)
        /\ resp.status = StatusTemporaryRedirect
        /\ resp.user.NextURL # NoURL
        /\ resp.location = resp.user.NextURL
        /\ ~HandlerInvoked

\* C10: a request whose cookie decodes to a record with a token gets that
\* same record re-issued (with the configured max-age), the handler invoked
\* exactly once with a client built from that token, no status written by
\* the gate and no provider call; the client then still holds the record, so
\* the next such request is answered the same way.
C10_AuthenticatedIdempotent ==
    (SessionRead /\ HoldsToken) =>
        /\ req.cookie = ValidCookie(resp.user)
        /\ Len(resp.setCookie) = 1
        /\ resp.setCookie[1].val = resp.user
        /\ resp.setCookie[1].MaxAge = h.MaxAge
        /\ resp.handler = 1
        /\ resp.client = resp.user.OAuthToken
        /\ resp.status = 0
        /\ resp.location = NoURL
        /\ ~ExchangeTried
        /\ ~ProfileFetched
        /\ jar = req.cookie

\* an authenticated request was served, on the callback path as well
C10_Witness == SessionRead /\ HoldsToken /\ HandlerInvoked /\ OnCallback

C12_DecodeErrorIs500 ==
    /\ (Served /\ resp.decode \notin {"nil", "ErrNoCookie"}) =>
          /\ CookieDeleted
          /\ resp.status = StatusInternalServerError
          /\ resp.body = "internal error"
          /\ resp.location = NoURL
          /\ ~ExchangeTried
          /\ ~ProfileFetched
          /\ ~HandlerInvoked
    /\ (Served /\ resp.decode = "ErrNoCookie") =>
          /\ resp.user = EmptySess
          /\ resp.status \in {StatusTemporaryRedirect, StatusUnauthorized}
          /\ (OnCallback => resp.stateCmp # "none")
          /\ (~OnCallback => resp.nonce \in Nonces)

\* a decode error on the callback path, with a state and a code in the query
C12_Witness ==
    /\ Served /\ resp.decode = "ErrInvalid" /\ OnCallback
    /\ FormValue(req.URL.RawQuery, "code") # EmptyString
    /\ resp.body = "internal error"

\* how many times the gate wrote a status line
Responses == Cardinality({i \in 1..Len(resp.trace) : resp.trace[i] = "respond"})

\* C13 as stated: every request ends either with the handler invoked exactly
\* once and nothing written by the gate, or with exactly one response of the
\* gate (307, 401 or 500) and no handler invocation.
C13_AsStated ==
    (resp.phase # "idle") =>
        \/ /\ resp.handler = 1
           /\ Responses = 0 /\ resp.status = 0
        \/ /\ resp.handler = 0
           /\ Responses = 1
           /\ resp.status \in {StatusTemporaryRedirect, StatusUnauthorized,
                               StatusInternalServerError}

GateError == resp.status \in {StatusUnauthorized, StatusInternalServerError}

\* the gate has started a login flow for the request
FlowStarted ==
    /\ resp.status = StatusTemporaryRedirect
    /\ resp.nonce \in Nonces
    /\ Len(resp.setCookie) = 1
    /\ resp.setCookie[1].val = sess(NoToken, C8_ExpectedNextURL, resp.nonce)
    /\ resp.location[3].state = resp.nonce

\* C15: every 401 or 500 of the gate comes with the session cookie replaced
\* by an empty record of negative max-age, so a browser storing it holds no
\* cookie; and the request that follows such an answer without a cookie, off
\* the callback path, is answered with the 307 of a fresh login flow.
C15_RecoveryAfterFailure ==
    /\ [](GateError =>
            /\ CookieDeleted
            /\ StoreCookies(req.cookie, resp.setCookie) = NoCookie)
    /\ [][(/\ GateError
           /\ jar = NoCookie
           /\ req'.cookie = NoCookie
           /\ req'.URL.Path # callbackPath) => FlowStarted']_vars

\* a 401 for a cookie the browser held, which it has dropped on the answer
C15_Witness ==
    /\ resp.status = StatusUnauthorized /\ CookieDeleted
    /\ req.cookie.kind = "valid" /\ jar = NoCookie

\* the cookie name the documentation of OAuthHandler promises
DocumentedName == IF h.Name = "" THEN "herokugoauth" ELSE h.Name

\* C17 as stated: every read, write, refresh and deletion of the session
\* cookie uses the configured Name, or "herokugoauth" when Name is empty.
C17_AsStated ==
    Served =>
        /\ resp.getName = DocumentedName
        /\ \A i \in 1..Len(resp.setCookie) : resp.setCookie[i].Name = DocumentedName

\* the three shapes of a written session record
TokenOnly(s) == s.OAuthToken # NoToken /\ s.NextURL = NoURL /\ s.State = EmptyString
FlowOnly(s) == s.OAuthToken = NoToken /\ s.NextURL # NoURL /\ s.State # EmptyString

\* C18: every record the gate writes is token only, or nextURL and state
\* both non-empty without a token, or the empty record; the empty record is
\* written with a negative max-age and only it is.
C18_RecordShape ==
    \A i \in 1..Len(resp.setCookie) :
        LET w == resp.setCookie[i]
        IN  /\ TokenOnly(w.val) \/ FlowOnly(w.val) \/ w.val = EmptySess
            /\ (w.val = EmptySess) <=> (w.MaxAge < 0)

\* the callback of a started flow wrote its token
C18_Witness ==
    /\ Served /\ OnCallback /\ resp.user.State # EmptyString
    /\ Len(resp.setCookie) = 1 /\ TokenOnly(resp.setCookie[1].val)

\* position of the first occurrence of an event in the trace, 0 when absent
TracePos(e) ==
    IF \E i \in 1..Len(resp.trace) : resp.trace[i] = e
    THEN CHOOSE i \in 1..Len(resp.trace) :
           resp.trace[i] = e /\ \A j \in 1..(i - 1) : resp.trace[j] # e
    ELSE 0

Count(e) == Cardinality({i \in 1..Len(resp.trace) : resp.trace[i] = e})

\* C19: within one request the token exchange is tried at most once, only
\* on the callback path and after the state comparison passed; the profile
\* GET is issued at most once, only after a successful exchange and only with
\* a required domain; authenticated requests, new login redirects and decode
\* errors make no provider call.
C19_ProviderCallOrder ==
    /\ Len(resp.exchange) <= 1 /\ Count("exchange") = Len(resp.exchange)
    /\ Len(resp.profile) <= 1 /\ Count("profile") = Len(resp.profile)
    /\ ExchangeTried =>
          /\ OnCallback /\ ~HoldsToken /\ StateParamEqual
          /\ 0 < TracePos("compare") /\ TracePos("compare") < TracePos("exchange")
    /\ ProfileFetched =>
          /\ ExchangeOk /\ h.RequireDomain # << >>
          /\ TracePos("exchange") < TracePos("profile")
    /\ (HandlerInvoked \/ ~OnCallback \/ resp.decode = "ErrInvalid" \/ HoldsToken) =>
          ~ExchangeTried /\ ~ProfileFetched

\* a callback that made both provider calls
C19_Witness ==
    /\ Served /\ ExchangeOk /\ ProfileFetched
    /\ resp.trace = <<"get", "compare", "exchange", "profile", "set", "respond">>

\* C16 as stated: the key is the handler's Key field, and a bad key is never
\* detected during, and never ends the process during, the handling of a
\* request; the request path reads no environment state for the key.
C16_AsStated ==
    (resp.phase # "idle") =>
        /\ resp.phase # "exited"
        /\ alive
        /\ sessionConfig(h).Keys.key = h.Key

\* C14: the browser that asked for U without a cookie, followed every
\* redirect and stored every cookie, with a cooperating provider, eventually
\* has the handler invoked for U, having been sent to the provider once.
C14_LoginCompletes ==
    <>(/\ HandlerInvoked
       /\ req.Host = browser.U.Host
       /\ req.URL = browser.U.URL
       /\ browser.provider = 1)

\* the handler serves a U that has a query, after one visit to the provider
C14_Witness ==
    /\ HandlerInvoked
    /\ req.URL = browser.U.URL /\ req.URL.RawQuery # << >>
    /\ browser.provider = 1
    /\ resp.user.OAuthToken \in minted

\* C20: with flow 1 then flow 2 started from one cookie jar before either
\* callback (their nonces differing), the cookie holds only flow 2's state;
\* flow 1's callback is never exchanged and at most one callback is; when
\* flow 1's callback comes first it gets 401 and clears the cookie, and flow
\* 2's callback then gets 401 too, without an exchange.
C20_InterleavedFlows ==
    LET cb == browser.cb
    IN  /\ (browser.f2 # EmptyString /\ cb = << >>) =>
              /\ jar.kind = "valid"
              /\ jar.val.State = browser.f2 /\ jar.val.State # browser.f1
        /\ \A i \in 1..Len(cb) : cb[i].flow = 1 => ~cb[i].exchanged
        /\ Cardinality({i \in 1..Len(cb) : cb[i].exchanged}) <= 1
        /\ (Len(cb) >= 1 /\ cb[1].flow = 1) =>
              /\ cb[1].status = StatusUnauthorized
              /\ (Len(cb) = 1 => jar = NoCookie)
              /\ (Len(cb) = 2 =>
                    /\ cb[2].status = StatusUnauthorized
                    /\ ~cb[2].exchanged
                    /\ cb[2].handler = 0 /\ cb[1].handler = 0
                    /\ jar = NoCookie)

\* flow 1's callback came first, both callbacks were denied
C20_Witness ==
    /\ Len(browser.cb) = 2 /\ browser.cb[1].flow = 1
    /\ browser.cb[2].status = StatusUnauthorized

====
